---- MODULE Spec2Model ----
(***************************************************************************)
(* Model of convert_eprime.py: text_to_csv, text_to_rcsv and their helpers *)
(* _strip, _transpose and _merge_lists.                                    *)
(*                                                                         *)
(* A Python string is a sequence of one-character strings, so that string  *)
(* repetition, slicing and the assignment of a string to a list slice act  *)
(* character by character as they do in Python.  A Python list is a        *)
(* sequence; the operators below take Python's 0-based indices.            *)
(***************************************************************************)
EXTENDS Integers, Sequences, FiniteSets, TLC

\* ------------------------------------------------------------------------
\* Bounds of the model
\* ------------------------------------------------------------------------
MaxRows == 5        \* data rows of a column handed to the column filler
MaxSegments == 3    \* pieces a log is put together from
MaxLists == 2       \* columns handed to _merge_lists
MaxMergeLen == 3    \* cells of each column handed to _merge_lists
MaxPruneRows == 3   \* data rows of a table handed to the selection and pruning

\* ------------------------------------------------------------------------
\* Python lists and strings
\* ------------------------------------------------------------------------
Min(x, y) == IF x < y THEN x ELSE y
Max(x, y) == IF x > y THEN x ELSE y

\* s[i]
At(s, i) == s[i + 1]

\* s[a:b] for a, b >= 0
PySlice(s, a, b) == SubSeq(s, Min(a, Len(s)) + 1, Min(b, Len(s)))

\* s[:k], k possibly negative
PyPrefix(s, k) == IF k < 0 THEN SubSeq(s, 1, Max(Len(s) + k, 0))
                  ELSE SubSeq(s, 1, Min(k, Len(s)))

\* s[a:b] = t (in place), a, b >= 0
PySliceAssign(s, a, b, t) ==
    LET lo == Min(a, Len(s))
        hi == Max(lo, Min(b, Len(s)))
    IN  SubSeq(s, 1, lo) \o t \o SubSeq(s, hi + 1, Len(s))

\* s * n for a string (or list) s
RECURSIVE Repeat(_, _)
Repeat(s, n) == IF n <= 0 THEN <<>> ELSE s \o Repeat(s, n - 1)

\* list(s) for a string s: its characters, each a one-character string
Chars(s) == [i \in 1..Len(s) |-> <<s[i]>>]

\* frag in s, for strings
IsSubstr(frag, s) ==
    \E i \in 0..(Len(s) - Len(frag)) : SubSeq(s, i + 1, i + Len(frag)) = frag

\* s.index(frag) for strings: the first position, -1 standing for ValueError
StrIndex(s, frag) ==
    LET hits == {i \in 0..(Len(s) - Len(frag)) :
                    SubSeq(s, i + 1, i + Len(frag)) = frag}
    IN  IF hits = {} THEN -1 ELSE CHOOSE i \in hits : \A j \in hits : i <= j

\* list_.index(val): the first position, -1 standing for ValueError
ListIndex(list_, val) ==
    LET hits == {i \in 0..(Len(list_) - 1) : At(list_, i) = val}
    IN  IF hits = {} THEN -1 ELSE CHOOSE i \in hits : \A j \in hits : i <= j

\* the null sentinel "NULL"
NULL == <<"N", "U", "L", "L">>

\* ------------------------------------------------------------------------
\* The column filler (text_to_csv lines 147-154, text_to_rcsv lines 234-246)
\* ------------------------------------------------------------------------

\* rows_w_vals = [j_cell for j_cell, cell in enumerate(col) if cell != "NULL"]
RECURSIVE RowsFrom(_, _)
RowsFrom(col, j) ==
    IF j >= Len(col) THEN <<>>
    ELSE (IF At(col, j) # NULL THEN <<j>> ELSE <<>>) \o RowsFrom(col, j + 1)

rows_w_vals(col) == RowsFrom(col, 0)

\* PolicyA stopping one row short (mutant)
PolicyAShort(col, rows) ==
    PySliceAssign(col, 1, Len(col) - 1,
                  Repeat(<<At(col, At(rows, 1))>>, Len(col) - 2))

\* data_matrix[i_col][1:len(col)] = [col[rows_w_vals[1]]] * (len(col) - 1)
PolicyA(col, rows) ==
    PySliceAssign(col, 1, Len(col), Repeat(<<At(col, At(rows, 1))>>, Len(col) - 1))

\* PolicyB leaving the rows between the header and the first value (mutant)
RECURSIVE PolicyBFromFirstValue(_, _, _)
PolicyBFromFirstValue(col, rows, null_row) ==
    IF null_row >= Len(rows) THEN [err |-> "none", col |-> col]
    ELSE LET first == At(rows, null_row - 1) + 1
             last == At(rows, null_row)
             n_rows_to_fill == Max(last - first, 0)
         IN  IF last >= Len(col) THEN [err |-> "IndexError", col |-> col]
             ELSE IF At(rows, null_row - 1) = 0
                  THEN PolicyBFromFirstValue(col, rows, null_row + 1)
             ELSE PolicyBFromFirstValue(
                      PySliceAssign(col, first, last,
                          Chars(Repeat(At(col, last), n_rows_to_fill))),
                      rows, null_row + 1)

\* One pass of the loop of lines 240-244 from null_row on.  rows is computed
\* once, before the loop; col is the list being changed in place, and the
\* value is read from it as it is at that moment.  The right-hand side is
\* the string col[rows[null_row]] * n_rows_to_fill, assigned to a list slice.
RECURSIVE PolicyB(_, _, _)
PolicyB(col, rows, null_row) ==
    IF null_row >= Len(rows) THEN [err |-> "none", col |-> col]
    ELSE LET first == At(rows, null_row - 1) + 1
             last == At(rows, null_row)
             n_rows_to_fill == Max(last - first, 0)
         IN  IF last >= Len(col) THEN [err |-> "IndexError", col |-> col]
             ELSE PolicyB(PySliceAssign(col, first, last,
                                Chars(Repeat(At(col, last), n_rows_to_fill))),
                          rows, null_row + 1)

\* any([header in col[0] for header in fill_block])
IsFillBlock(col, fill_block) == \E header \in fill_block : IsSubstr(header, At(col, 0))

\* text_to_csv, lines 148-152: the column object after the fill
FillCsv(col) ==
    LET rows == rows_w_vals(col)
    IN  IF Len(rows) = 2 /\ At(rows, 1) = Len(col) - 1
        THEN [err |-> "none", col |-> PolicyA(col, rows)]
        ELSE [err |-> "none", col |-> col]

\* text_to_rcsv, lines 235-244: the column object after the fill
FillRcsv(col, fill_block) ==
    LET rows == rows_w_vals(col)
    IN  IF Len(rows) = 2 /\ (At(rows, 1) = Len(col) - 1 \/ At(rows, 1) = Len(col) - 2)
        THEN [err |-> "none", col |-> PolicyA(col, rows)]
        ELSE IF IsFillBlock(col, fill_block)
             THEN PolicyB(col, rows, 1)
             ELSE [err |-> "none", col |-> col]

\* The cut taking one cell only (mutant)
TruncateOne(col) == PyPrefix(col, Len(col) - 1)

\* data_matrix[i_col] = col[:len(col) - 2]
Truncate(col) == PyPrefix(col, Len(col) - 2)

\* ------------------------------------------------------------------------
\* _strip, _transpose, _merge_lists
\* ------------------------------------------------------------------------

\* ord(val) for the characters of the model: the control characters a raw
\* line can carry, and printable ASCII (letters stand at 97).
Ord(val) == CASE val = "\t" -> 9
              [] val = "\n" -> 10
              [] val = "\r" -> 13
              [] val = " " -> 32
              [] val = "*" -> 42
              [] val = ":" -> 58
              [] OTHER -> 97

\* "".join([val for val in string if 31 < ord(val) < 127])
_strip(string) == SelectSeq(string, LAMBDA val : 31 < Ord(val) /\ Ord(val) < 127)

\* _transpose(list_): list_[0] of an empty list and row[col] of a short row
\* raise IndexError; empty transposed rows are filtered out.
_transpose(list_) ==
    IF Len(list_) = 0 THEN [err |-> "IndexError", val |-> <<>>]
    ELSE IF \E r \in 1..Len(list_) : Len(list_[r]) < Len(list_[1])
         THEN [err |-> "IndexError", val |-> <<>>]
         ELSE LET transposed_ == [col \in 1..Len(list_[1]) |->
                                     [r \in 1..Len(list_) |-> list_[r][col]]]
              IN  [err |-> "none",
                   val |-> SelectSeq(transposed_, LAMBDA col : Len(col) > 0)]

\* MergeCell testing the accumulated value in place of the source's (mutant)
MergeCellOnAcc(cell, acc, option) ==
    IF option = "all_null" THEN (IF acc = NULL THEN cell ELSE acc)
    ELSE (IF acc # NULL THEN cell ELSE acc)

\* One cell of the list comprehensions of lines 340-341 and 343-344.
MergeCell(cell, acc, option) ==
    IF option = "all_null" THEN (IF cell = NULL THEN cell ELSE acc)
    ELSE (IF cell # NULL THEN cell ELSE acc)

\* MergeStep writing into the list merged is bound to (mutant)
MergeStepInPlace(st, i_col, option) ==
    IF option \notin {"all_null", "all_else"} THEN st
    ELSE IF Len(At(st.lists, i_col)) < Len(st.merged)
         THEN [st EXCEPT !.err = "IndexError"]
         ELSE LET new == [i_row \in 1..Len(st.merged) |->
                             IF option = "all_null"
                             THEN (IF At(st.lists, i_col)[i_row] = NULL
                                   THEN At(st.lists, i_col)[i_row]
                                   ELSE st.merged[i_row])
                             ELSE (IF At(st.lists, i_col)[i_row] # NULL
                                   THEN At(st.lists, i_col)[i_row]
                                   ELSE st.merged[i_row])]
              IN  [st EXCEPT !.merged = new,
                             !.lists = IF st.alias = 0 THEN st.lists
                                       ELSE [st.lists EXCEPT ![st.alias] = new]]

\* One pass of the loop of lines 338-344.  The state holds the source lists,
\* the list merged is bound to, and alias: the 1-based position in lists of
\* the list object merged is bound to, 0 when it is an object of its own.
\* Each pass binds merged to a new list.
MergeStep(st, i_col, option) ==
    IF option \notin {"all_null", "all_else"} THEN st
    ELSE IF Len(At(st.lists, i_col)) < Len(st.merged)
         THEN [st EXCEPT !.err = "IndexError"]
         ELSE [st EXCEPT !.merged = [i_row \in 1..Len(st.merged) |->
                                        MergeCell(At(st.lists, i_col)[i_row],
                                                  st.merged[i_row], option)],
                         !.alias = 0]

RECURSIVE MergeLoop(_, _, _)
MergeLoop(st, i_col, option) ==
    IF i_col >= Len(st.lists) \/ st.err # "none" THEN st
    ELSE MergeLoop(MergeStep(st, i_col, option), i_col + 1, option)

\* _merge_lists(lists, option).  The columns handed over are always lists,
\* so the branch of line 335 is never taken; lists[0] of an empty list
\* raises IndexError.
_merge_lists(lists, option) ==
    IF Len(lists) = 0
    THEN [err |-> "IndexError", merged |-> <<>>, alias |-> 0, lists |-> lists]
    ELSE MergeLoop([err |-> "none", merged |-> lists[1], alias |-> 1,
                    lists |-> lists], 0, option)

\* merged_data[i_merge][0] = merge_col_names_list[i_merge] (line 270), a
\* write into the list object the merge returned.
SetHeader(st, name) ==
    IF st.err # "none" THEN st
    ELSE IF Len(st.merged) = 0 THEN [st EXCEPT !.err = "IndexError"]
    ELSE [st EXCEPT !.merged = [st.merged EXCEPT ![1] = name],
                    !.lists = IF st.alias = 0 THEN st.lists
                              ELSE [st.lists EXCEPT ![st.alias] =
                                       [st.lists[st.alias] EXCEPT ![1] = name]]]

\* ------------------------------------------------------------------------
\* State
\* ------------------------------------------------------------------------
VARIABLES
    op,             \* the function called: "text_to_csv" or "text_to_rcsv"
    cfg,            \* what headers.pickle holds for the task (lines 33-35)
    text_data,      \* the lines of the text file, as read
    pc,             \* how far the call has come
    err,            \* "none", or the exception that ended the call
    start_index,
    end_index,
    data_by_rows,
    unique_headers,
    built_matrix,   \* data_matrix as built, before the fill loop (history)
    cols,           \* the column objects col after the fill, before line 154/246
    data_matrix,
    header_index,
    merged_data,
    selected_matrix,\* out_matrix before the pops of line 291 (history)
    merged_nulls_list,
    out_matrix,
    lists,          \* _merge_lists on its own: the argument
    option,
    result,         \* the merge state, see MergeStep
    m_pc

pvars == <<op, cfg, text_data, pc, err, start_index, end_index, data_by_rows,
           unique_headers, built_matrix, cols, data_matrix, header_index,
           merged_data, selected_matrix, merged_nulls_list, out_matrix>>
mvars == <<lists, option, result, m_pc>>
vars == <<pvars, mvars>>

\* ------------------------------------------------------------------------
\* text_to_csv / text_to_rcsv, step by step
\* ------------------------------------------------------------------------
StartMarker == <<"*", "*", "*", " ", "L", "o", "g", "F", "r", "a", "m", "e",
                 " ", "S", "t", "a", "r", "t", " ", "*", "*", "*">>
EndMarker == <<"*", "*", "*", " ", "L", "o", "g", "F", "r", "a", "m", "e",
               " ", "E", "n", "d", " ", "*", "*", "*">>
Separator == <<":", " ">>

\* [i_row for i_row, row in enumerate(filtered_data) if row == marker]
RECURSIVE MarkerRows(_, _, _)
MarkerRows(filtered_data, marker, i_row) ==
    IF i_row >= Len(filtered_data) THEN <<>>
    ELSE (IF At(filtered_data, i_row) = marker THEN <<i_row>> ELSE <<>>)
         \o MarkerRows(filtered_data, marker, i_row + 1)

\* Lines 99-111 and 185-197: read, strip, find the markers, check them.
\* start_index[0] of an empty list raises IndexError.
SegmentCheck(starts, ends) ==
    IF Len(starts) # Len(ends) THEN "ValueError"
    ELSE IF Len(starts) = 0 THEN "IndexError"
    ELSE IF At(starts, 0) >= At(ends, 0) THEN "ValueError"
    ELSE "none"

Segment ==
    /\ pc = "start"
    /\ \E filtered_data \in {[i \in 1..Len(text_data) |-> _strip(text_data[i])]} :
       \E starts \in {MarkerRows(filtered_data, StartMarker, 0)} :
       \E ends \in {MarkerRows(filtered_data, EndMarker, 0)} :
       \E e \in {SegmentCheck(starts, ends)} :
          /\ start_index' = starts
          /\ end_index' = ends
          /\ err' = e
          /\ data_by_rows' =
                IF e # "none" THEN <<>>
                ELSE [i \in 1..Len(starts) |->
                         PySlice(filtered_data, starts[i] + 1, ends[i])]
          /\ pc' = IF e # "none" THEN "failed" ELSE "segmented"
    /\ UNCHANGED <<op, cfg, text_data, unique_headers, built_matrix, cols,
                   data_matrix, header_index, merged_data, selected_matrix,
                   merged_nulls_list, out_matrix, mvars>>

\* one_row[j_col][:split_header_idx] and one_row[j_col][split_header_idx+2:]
FieldName(line) == PySlice(line, 0, StrIndex(line, Separator))
FieldValue(line) == PySlice(line, StrIndex(line, Separator) + 2, Len(line))

\* The cell of column header at trial i_row (lines 135-143): the value of
\* the last line of the block that carries the header, else "NULL".
CellOf(one_row, header) ==
    LET hits == {j \in 1..Len(one_row) : FieldName(one_row[j]) = header}
    IN  IF hits = {} THEN NULL
        ELSE FieldValue(one_row[CHOOSE j \in hits : \A k \in hits : k <= j])

\* list(set(all_headers)): the order is the set's, any one of them
Orders(S) == {f \in [1..Cardinality(S) -> S] :
                 \A i, j \in 1..Cardinality(S) : i # j => f[i] # f[j]}

\* set(all_headers), lines 117-124
AllHeaders(rows) ==
    UNION {{FieldName(rows[i][j]) : j \in 1..Len(rows[i])} : i \in 1..Len(rows)}

\* Lines 114-143 and 200-229: the headers and the table of NULLs filled in.
\* one_row[j_col].index(": ") raises ValueError on a line without ": ".
Build ==
    /\ pc = "segmented"
    /\ IF \E i \in 1..Len(data_by_rows) : \E j \in 1..Len(data_by_rows[i]) :
             StrIndex(data_by_rows[i][j], Separator) = -1
       THEN /\ err' = "ValueError"
            /\ pc' = "failed"
            /\ UNCHANGED <<unique_headers, built_matrix>>
       ELSE /\ \E hs \in Orders(AllHeaders(data_by_rows)) :
                 /\ unique_headers' = hs
                 /\ built_matrix' =
                       [k \in 1..Len(hs) |->
                           <<hs[k]>> \o [i \in 1..Len(start_index) |->
                                            CellOf(data_by_rows[i], hs[k])]]
            /\ pc' = "built"
            /\ UNCHANGED err
    /\ UNCHANGED <<op, cfg, text_data, start_index, end_index, data_by_rows,
                   cols, data_matrix, header_index, merged_data,
                   selected_matrix, merged_nulls_list, out_matrix, mvars>>

\* Lines 147-154 and 234-246: every column filled, then cut by two cells.
\* An exception in the fill of one column ends the call.
FillOne(col) ==
    IF op = "text_to_csv" THEN FillCsv(col) ELSE FillRcsv(col, cfg.fill_block)

Fill ==
    /\ pc = "built"
    /\ LET res == [k \in 1..Len(built_matrix) |-> FillOne(built_matrix[k])]
       IN  IF \E k \in 1..Len(res) : res[k].err # "none"
           THEN /\ err' = "IndexError"
                /\ pc' = "failed"
                /\ UNCHANGED <<cols, data_matrix>>
           ELSE /\ cols' = [k \in 1..Len(res) |-> res[k].col]
                /\ data_matrix' = [k \in 1..Len(res) |-> Truncate(res[k].col)]
                /\ pc' = "filled"
                /\ UNCHANGED err
    /\ UNCHANGED <<op, cfg, text_data, start_index, end_index, data_by_rows,
                   unique_headers, built_matrix, header_index, merged_data,
                   selected_matrix, merged_nulls_list, out_matrix, mvars>>

\* text_to_csv, line 157: out_matrix = _transpose(data_matrix)
CsvOutput ==
    /\ pc = "filled"
    /\ op = "text_to_csv"
    /\ LET t == _transpose(data_matrix)
       IN  /\ err' = t.err
           /\ out_matrix' = t.val
           /\ pc' = IF t.err = "none" THEN "done" ELSE "failed"
    /\ UNCHANGED <<op, cfg, text_data, start_index, end_index, data_by_rows,
                   unique_headers, built_matrix, cols, data_matrix,
                   header_index, merged_data, selected_matrix,
                   merged_nulls_list, mvars>>

\* replacements.get(item, item)
DictGet(dict, item) == IF item \in DOMAIN dict THEN dict[item] ELSE item

\* Lines 265-270, from i_merge on.  st holds the exception if any, the
\* column-major table (whose lists the merges are handed) and merged_data.
RECURSIVE MergeAll(_, _, _)
MergeAll(st, headers0, i_merge) ==
    IF i_merge >= Len(cfg.merge_col_names) \/ st.err # "none" THEN st
    ELSE IF i_merge >= Len(cfg.merge_cols)
         THEN [st EXCEPT !.err = "IndexError"]
    ELSE LET heds == At(cfg.merge_cols, i_merge)
             merge_col_nums == [h \in 1..Len(heds) |-> ListIndex(headers0, heds[h])]
         IN  IF \E h \in 1..Len(heds) : merge_col_nums[h] = -1
             THEN [st EXCEPT !.err = "ValueError"]
             ELSE LET data_to_merge == [h \in 1..Len(heds) |->
                                           At(st.data_matrix, merge_col_nums[h])]
                      m == SetHeader(_merge_lists(data_to_merge, "all_else"),
                                     At(cfg.merge_col_names, i_merge))
                  IN  IF m.err # "none" THEN [st EXCEPT !.err = m.err]
                      ELSE MergeAll(
                             [err |-> "none",
                              data_matrix |->
                                 [c \in 1..Len(st.data_matrix) |->
                                     IF \E h \in 1..Len(heds) :
                                           merge_col_nums[h] + 1 = c
                                     THEN m.lists[CHOOSE h \in 1..Len(heds) :
                                                     merge_col_nums[h] + 1 = c]
                                     ELSE st.data_matrix[c]],
                              merged_data |-> Append(st.merged_data, m.merged)],
                             headers0, i_merge + 1)

\* Lines 249-279: transpose, rename, select, merge, append.
Select ==
    /\ pc = "filled"
    /\ op = "text_to_rcsv"
    /\ \E t \in {_transpose(data_matrix)} :
       LET fail(e) == /\ err' = e
                      /\ pc' = "failed"
                      /\ UNCHANGED <<data_matrix, header_index, merged_data,
                                     selected_matrix, out_matrix>>
       IN  IF t.err # "none" THEN fail(t.err)
           ELSE IF Len(t.val) = 0 THEN fail("IndexError")
           ELSE
             \E headers0 \in {[i \in 1..Len(t.val[1]) |->
                                  DictGet(cfg.replacements, t.val[1][i])]} :
             \E hidx \in {[h \in 1..Len(cfg.header_list) |->
                              ListIndex(headers0, cfg.header_list[h])]} :
               IF \E h \in 1..Len(hidx) : hidx[h] = -1 THEN fail("ValueError")
               ELSE
                 \E mg \in {MergeAll([err |-> "none", data_matrix |-> data_matrix,
                                      merged_data |-> <<>>], headers0, 0)} :
                 \E t_data_matrix \in {[t.val EXCEPT ![1] = headers0]} :
                 \E picked \in {[i_row \in 1..Len(t_data_matrix) |->
                                   [h \in 1..Len(hidx) |->
                                       At(t_data_matrix[i_row], hidx[h])]]} :
                 \E t_merged_data \in {_transpose(mg.merged_data)} :
                   IF mg.err # "none" THEN fail(mg.err)
                   ELSE IF Len(mg.merged_data) # 0 /\ t_merged_data.err # "none"
                        THEN fail(t_merged_data.err)
                   ELSE IF Len(mg.merged_data) # 0
                           /\ Len(t_merged_data.val) < Len(picked)
                        THEN fail("IndexError")
                   ELSE /\ header_index' = hidx
                        /\ data_matrix' = mg.data_matrix
                        /\ merged_data' = mg.merged_data
                        /\ out_matrix' =
                              IF Len(mg.merged_data) = 0 THEN picked
                              ELSE [i_row \in 1..Len(picked) |->
                                       picked[i_row] \o t_merged_data.val[i_row]]
                        /\ selected_matrix' = out_matrix'
                        /\ pc' = "selected"
                        /\ UNCHANGED err
    /\ UNCHANGED <<op, cfg, text_data, start_index, end_index, data_by_rows,
                   unique_headers, built_matrix, cols, merged_nulls_list, mvars>>

\* sorted([i_row for i_row in range(len(merged)) if merged[i_row] == "NULL"],
\*        reverse=True)
RECURSIVE NullRowsDown(_, _)
NullRowsDown(merged, i_row) ==
    IF i_row < 0 THEN <<>>
    ELSE (IF At(merged, i_row) = NULL THEN <<i_row>> ELSE <<>>)
         \o NullRowsDown(merged, i_row - 1)

\* The NULL rows lowest first (mutant)
RECURSIVE NullRowsUp(_, _)
NullRowsUp(merged, i_row) ==
    IF i_row >= Len(merged) THEN <<>>
    ELSE (IF At(merged, i_row) = NULL THEN <<i_row>> ELSE <<>>)
         \o NullRowsUp(merged, i_row + 1)

NullIndexAscending(merged) == NullRowsUp(merged, 0)

null_index(merged) == NullRowsDown(merged, Len(merged) - 1)

\* [out_matrix.pop(null_row) for null_row in null_index], from the k-th on;
\* pop of a position the list does not have raises IndexError.
RECURSIVE PopAll(_, _, _)
PopAll(out, idx, k) ==
    IF k > Len(idx) THEN [err |-> "none", val |-> out]
    ELSE IF idx[k] >= Len(out) THEN [err |-> "IndexError", val |-> out]
    ELSE PopAll(SubSeq(out, 1, idx[k]) \o SubSeq(out, idx[k] + 2, Len(out)),
                idx, k + 1)

\* Lines 284-291: the null-check columns merged, their NULL rows popped.
Prune ==
    /\ pc = "selected"
    /\ \E hpos \in {[c \in 1..Len(cfg.null_cols) |->
                       ListIndex(cfg.header_list, cfg.null_cols[c])]} :
       IF \E c \in 1..Len(hpos) : hpos[c] = -1
       THEN /\ err' = "ValueError"
            /\ pc' = "failed"
            /\ UNCHANGED <<merged_nulls_list, out_matrix>>
       ELSE
         \E nulls_to_merge \in {[c \in 1..Len(hpos) |->
                                   At(data_matrix, At(header_index, hpos[c]))]} :
         \E m \in {_merge_lists(nulls_to_merge, "all_null")} :
           IF m.err # "none"
           THEN /\ err' = m.err
                /\ pc' = "failed"
                /\ UNCHANGED <<merged_nulls_list, out_matrix>>
           ELSE \E popped \in {PopAll(out_matrix, null_index(m.merged), 1)} :
                /\ merged_nulls_list' = m.merged
                /\ out_matrix' = popped.val
                /\ err' = popped.err
                /\ pc' = IF popped.err = "none" THEN "done" ELSE "failed"
    /\ UNCHANGED <<op, cfg, text_data, start_index, end_index, data_by_rows,
                   unique_headers, built_matrix, cols, data_matrix,
                   header_index, merged_data, selected_matrix, mvars>>

\* ------------------------------------------------------------------------
\* _merge_lists on its own
\* ------------------------------------------------------------------------
MergeCall ==
    /\ m_pc = "call"
    /\ result' = _merge_lists(lists, option)
    /\ m_pc' = "merged"
    /\ UNCHANGED <<lists, option, pvars>>

\* The caller's write of line 270 into the list the merge returned
NameMerged ==
    /\ m_pc = "merged"
    /\ option = "all_else"
    /\ result' = SetHeader(result, <<"m">>)
    /\ m_pc' = "named"
    /\ UNCHANGED <<lists, option, pvars>>

\* ------------------------------------------------------------------------
\* Inputs
\* ------------------------------------------------------------------------
StartLine == StartMarker \o <<"\n">>
EndLine == EndMarker \o <<"\n">>
FieldLine(name, value) == name \o Separator \o value \o <<"\n">>
Frame(fields) == <<StartLine>> \o fields \o <<EndLine>>

\* The pieces a log is put together from: whole frames with none, one or two
\* fields (a value of one character, of two, or empty), a frame holding a
\* line without ": ", and a start or an end marker standing alone.
Segments ==
    { Frame(<<>>),
      Frame(<<FieldLine(<<"a">>, <<"A">>)>>),
      Frame(<<FieldLine(<<"a">>, <<"A", "B">>)>>),
      Frame(<<FieldLine(<<"a">>, <<>>)>>),
      Frame(<<FieldLine(<<"b">>, <<"B">>)>>),
      Frame(<<FieldLine(<<"a">>, <<"A">>), FieldLine(<<"b">>, <<"B">>)>>),
      Frame(<<<<"x", "\n">>>>),
      <<StartLine>>,
      <<EndLine>> }

RECURSIVE LogsOf(_)
LogsOf(n) == IF n = 0 THEN {<<>>}
             ELSE {s \o l : s \in Segments, l \in LogsOf(n - 1)}

Logs == UNION {LogsOf(n) : n \in 1..MaxSegments}

EmptyDict == [x \in {} |-> x]

\* What headers.pickle may hold for a task: the wanted headers, the renames,
\* the fill-block fragments, the merges and the null-check columns
ConfigsOf(H, R, F, G, N) ==
    { [header_list |-> h, replacements |-> r, fill_block |-> f,
       merge_cols |-> g.cols, merge_col_names |-> g.names, null_cols |-> n] :
        h \in H, r \in R, f \in F, g \in G, n \in N }

NoMerges == [cols |-> <<>>, names |-> <<>>]
MergeAC == [cols |-> << << <<"a">>, <<"c">> >> >>, names |-> << <<"m">> >>]
RenameBC == (<<"b">> :> <<"c">>)

\* Two tasks: one that keeps column a alone, one that renames b to c, keeps
\* c and a, merges a and c into m and checks both for nulls; each with and
\* without a as a fill-block fragment.
TaskConfigs ==
    ConfigsOf({<< <<"a">> >>}, {EmptyDict}, {{}, {<<"a">>}}, {NoMerges},
              {<< <<"a">> >>})
    \cup ConfigsOf({<< <<"c">>, <<"a">> >>}, {RenameBC}, {{}, {<<"a">>}},
                   {MergeAC}, {<< <<"a">>, <<"c">> >>})

NoConfig == [header_list |-> <<>>, replacements |-> EmptyDict, fill_block |-> {},
             merge_cols |-> <<>>, merge_col_names |-> <<>>, null_cols |-> <<>>]

Idle == [err |-> "none", merged |-> <<>>, alias |-> 0, lists |-> <<>>]

NoCall ==
    /\ start_index = <<>> /\ end_index = <<>> /\ data_by_rows = <<>>
    /\ unique_headers = <<>> /\ built_matrix = <<>> /\ cols = <<>>
    /\ data_matrix = <<>> /\ header_index = <<>> /\ merged_data = <<>>
    /\ selected_matrix = <<>> /\ merged_nulls_list = <<>> /\ out_matrix = <<>>
    /\ err = "none"

NoMerge == lists = <<>> /\ option = "all_else" /\ result = Idle /\ m_pc = "idle"

\* A call of text_to_csv or of text_to_rcsv on a log
Init ==
    /\ NoCall /\ NoMerge
    /\ pc = "start"
    /\ text_data \in Logs
    /\ \/ op = "text_to_csv" /\ cfg = NoConfig
       \/ op = "text_to_rcsv" /\ cfg \in TaskConfigs

Next == Segment \/ Build \/ Fill \/ CsvOutput \/ Select \/ Prune

Spec == Init /\ [][Next]_vars

\* The column filler on a column of its own: a header and up to MaxRows cells
FillCells == {NULL, <<"A">>, <<"B">>, <<"A", "B">>, <<>>}
FillHeaders == {<<"b", "a">>, <<"b">>}

FillColumns ==
    UNION {{<<h>> \o d : h \in FillHeaders, d \in [1..n -> FillCells]} :
              n \in 1..MaxRows}

InitFill ==
    /\ start_index = <<>> /\ end_index = <<>> /\ data_by_rows = <<>>
    /\ unique_headers = <<>> /\ cols = <<>>
    /\ data_matrix = <<>> /\ header_index = <<>> /\ merged_data = <<>>
    /\ selected_matrix = <<>> /\ merged_nulls_list = <<>> /\ out_matrix = <<>>
    /\ err = "none" /\ NoMerge
    /\ text_data = <<>>
    /\ pc = "built"
    /\ \E col \in FillColumns : built_matrix = <<col>>
    /\ op \in {"text_to_csv", "text_to_rcsv"}
    /\ \E f \in {{}, {<<"a">>}} : cfg = [NoConfig EXCEPT !.fill_block = f]

NextFill == Fill

SpecFill == InitFill /\ [][NextFill]_vars

\* _merge_lists on up to MaxLists columns of up to MaxMergeLen cells each,
\* and on the two columns of the documented example
MergeCells == {NULL, <<"X">>, <<"Y">>}
ExampleLists == << <<NULL, <<"X">>, NULL>>, << <<"Y">>, NULL, <<"Z">> >> >>

MergeInputs ==
    UNION {[1..k -> [1..n -> MergeCells]] : k \in 1..MaxLists, n \in 1..MaxMergeLen}
    \cup {ExampleLists}

InitMerge ==
    /\ NoCall
    /\ pc = "idle" /\ op = "none" /\ cfg = NoConfig /\ text_data = <<>>
    /\ lists \in MergeInputs
    /\ option \in {"all_null", "all_else"}
    /\ result = Idle
    /\ m_pc = "call"

NextMerge == MergeCall \/ NameMerged

SpecMerge == InitMerge /\ [][NextMerge]_vars

\* The selection and the pruning on a filled table of their own: columns a
\* and b (in either order) or a alone, a header and up to MaxPruneRows cells
\* each, no fill-block fragment configured.
PruneCells == {NULL, <<"A">>, <<"B">>}

PruneTables ==
    UNION {{<< <<h>> \o d >> : h \in {<<"a">>}, d \in [1..n -> PruneCells]}
           \cup {<< <<h[1]>> \o d, <<h[2]>> \o e >> :
                    h \in {<< <<"a">>, <<"b">> >>, << <<"b">>, <<"a">> >>},
                    d \in [1..n -> PruneCells], e \in [1..n -> PruneCells]} :
           n \in 0..MaxPruneRows}

PruneConfigs ==
    ConfigsOf({<< <<"a">> >>, << <<"c">>, <<"a">> >>}, {EmptyDict, RenameBC},
              {{}}, {NoMerges, MergeAC},
              {<< <<"a">> >>, << <<"a">>, <<"c">> >>})

InitPrune ==
    /\ start_index = <<>> /\ end_index = <<>> /\ data_by_rows = <<>>
    /\ unique_headers = <<>> /\ built_matrix = <<>> /\ cols = <<>>
    /\ header_index = <<>> /\ merged_data = <<>>
    /\ selected_matrix = <<>> /\ merged_nulls_list = <<>> /\ out_matrix = <<>>
    /\ err = "none" /\ NoMerge
    /\ text_data = <<>>
    /\ pc = "filled"
    /\ op = "text_to_rcsv"
    /\ data_matrix \in PruneTables
    /\ cfg \in PruneConfigs

NextPrune == Select \/ Prune

SpecPrune == InitPrune /\ [][NextPrune]_vars

\* ------------------------------------------------------------------------
\* Properties of the column filler (checked under SpecFill)
\* ------------------------------------------------------------------------
InCol == built_matrix[1]
OutCol == cols[1]
Filled == pc = "filled" /\ Len(built_matrix) = 1

\* 0-based positions of the non-null cells of a column
NonNull(col) == {i \in 0..(Len(col) - 1) : At(col, i) # NULL}

\* The header and exactly one value, in the last slot or (text_to_rcsv) in
\* the one before it
TwoValue(col) ==
    \E p \in 1..(Len(col) - 1) :
        /\ NonNull(col) = {0, p}
        /\ p = Len(col) - 1 \/ (op = "text_to_rcsv" /\ p = Len(col) - 2)

NameMatches(col) == \E frag \in cfg.fill_block : IsSubstr(frag, col[1])

\* The column with every data row holding v
Broadcast(col, v) == <<col[1]>> \o [i \in 1..(Len(col) - 1) |-> v]

\* C10: a column whose only non-null cells are the header and one value V
\* in the last slot (or, in text_to_rcsv, the slot before it) has every data
\* row overwritten with V, also when its name matches a fill-block
\* fragment; any other column that Policy B does not fill is left as it is.
C10_PolicyA ==
    Filled =>
        /\ TwoValue(InCol) =>
              \E p \in NonNull(InCol) \ {0} : OutCol = Broadcast(InCol, At(InCol, p))
        /\ (~TwoValue(InCol) /\ (op = "text_to_csv" \/ ~NameMatches(InCol))) =>
              OutCol = InCol

\* The documented example ["NAME","NULL","NULL","V"] -> ["NAME","V","V","V"],
\* and a column filled from its second-to-last slot
C10_Witness ==
    /\ Filled
    /\ \/ /\ InCol = << <<"b">>, NULL, NULL, <<"A">> >>
          /\ OutCol = << <<"b">>, <<"A">>, <<"A">>, <<"A">> >>
          /\ op = "text_to_csv"
       \/ /\ InCol = << <<"b", "a">>, NULL, <<"A">>, NULL >>
          /\ OutCol = << <<"b", "a">>, <<"A">>, <<"A">>, <<"A">> >>
          /\ op = "text_to_rcsv"
          /\ NameMatches(InCol)

\* A fill-block column of text_to_rcsv that Policy A leaves alone
PolicyBCase ==
    /\ Filled
    /\ op = "text_to_rcsv"
    /\ NameMatches(InCol)
    /\ ~TwoValue(InCol)

\* 0-based position of the first non-null data cell of a column that has one
FirstValue(col) ==
    CHOOSE p \in NonNull(col) \ {0} : \A q \in NonNull(col) \ {0} : p <= q

LastValue(col) ==
    CHOOSE p \in NonNull(col) : \A q \in NonNull(col) : q <= p

\* C1 as stated: in a fill-block column that does not meet Policy A's
\* condition, every data row before the first non-null data value, and every
\* data row after the last non-null value, still holds "NULL" after filling.
C1_Original ==
    (PolicyBCase /\ NonNull(InCol) \ {0} # {}) =>
        /\ \A i \in 1..(FirstValue(InCol) - 1) :
              i < Len(OutCol) /\ At(OutCol, i) = NULL
        /\ \A i \in (LastValue(InCol) + 1)..(Len(InCol) - 1) :
              i < Len(OutCol) /\ At(OutCol, i) = NULL

\* C1 as amended: the header counts as a non-null position, so the rows
\* between it and the first non-null data value V are overwritten from V:
\* the first data row never holds "NULL" after filling, and when V is one
\* character long every row before it holds V.
C1_RowsBeforeFirstAreFilled ==
    (PolicyBCase /\ NonNull(InCol) \ {0} # {}) =>
        LET p == FirstValue(InCol)
            v == At(InCol, p)
        IN  /\ At(OutCol, 1) # NULL
            /\ Len(v) = 1 =>
                  \A i \in 1..p : i < Len(OutCol) /\ At(OutCol, i) = v

\* The documented example: the row before "A" becomes "A"
C1_Witness ==
    /\ PolicyBCase
    /\ InCol = << <<"b", "a">>, NULL, <<"A">>, NULL, NULL, <<"B">> >>
    /\ OutCol = << <<"b", "a">>, <<"A">>, <<"A">>, <<"B">>, <<"B">>, <<"B">> >>

\* C2 as stated: in a fill-block column, for every two consecutive non-null
\* positions p < q, every row strictly between them holds afterwards, as one
\* whole cell, the value that was at q, whatever its length; every other
\* cell is left at its position.
C2_Claim ==
    PolicyBCase =>
        /\ Len(OutCol) = Len(InCol)
        /\ \A i \in 0..(Len(InCol) - 1) :
              At(OutCol, i) =
                 IF i \in NonNull(InCol) \/ i > LastValue(InCol) THEN At(InCol, i)
                 ELSE At(InCol, CHOOSE q \in NonNull(InCol) :
                                   /\ q > i
                                   /\ \A r \in NonNull(InCol) : r > i => q <= r)

\* C2 restricted to columns whose values are one character long, where the
\* string handed to the slice has one character per row
OneCharValues == \A i \in NonNull(InCol) \ {0} : Len(At(InCol, i)) = 1
C2_OneCharOnly == (PolicyBCase /\ OneCharValues) => C2_Claim

\* ------------------------------------------------------------------------
\* Properties of _merge_lists (checked under SpecMerge)
\* ------------------------------------------------------------------------
Merged == m_pc = "merged" /\ result.err = "none"
MergeRows == 1..Len(lists[1])
SourcesAt(i) == {k \in 1..Len(lists) : lists[k][i] # NULL}

\* C5 as stated: "all_null" over ["NULL","X","NULL"] and ["Y","NULL","Z"]
\* returns ["NULL","X","NULL"].
C5_Original ==
    (m_pc = "merged" /\ lists = ExampleLists /\ option = "all_null") =>
        result.merged = <<NULL, <<"X">>, NULL>>

\* C5 as amended: "all_null" over ["NULL","X","NULL"] and ["Y","NULL","Z"]
\* returns ["NULL","NULL","NULL"]: every row has a null source.
C5_ExampleAllNull ==
    (m_pc = "merged" /\ lists = ExampleLists /\ option = "all_null") =>
        /\ result.err = "none"
        /\ result.merged = <<NULL, NULL, NULL>>

C5_Witness ==
    m_pc = "merged" /\ lists = ExampleLists /\ option = "all_null"

\* C6: "all_null" over equal-length columns: a row of the result is "NULL"
\* if and only if some source column is "NULL" at that row, and where no
\* source is "NULL" it holds the first column's value.
C6_AllNull ==
    (m_pc = "merged" /\ option = "all_null") =>
        /\ result.err = "none"
        /\ Len(result.merged) = Len(lists[1])
        /\ \A i \in MergeRows :
              /\ result.merged[i] = NULL <=> SourcesAt(i) # 1..Len(lists)
              /\ SourcesAt(i) = 1..Len(lists) => result.merged[i] = lists[1][i]

\* Two columns, one row where only the second is null and one where none is
C6_Witness ==
    /\ Merged /\ option = "all_null" /\ Len(lists) = 2
    /\ \E i, j \in MergeRows :
          /\ lists[1][i] # NULL /\ lists[2][i] = NULL /\ result.merged[i] = NULL
          /\ SourcesAt(j) = {1, 2} /\ lists[1][j] # lists[2][j]
          /\ result.merged[j] = lists[1][j]

NoNullCheckCell(row) ==
    \A c \in 1..Len(cfg.null_cols) :
        At(row, ListIndex(cfg.header_list, cfg.null_cols[c])) # NULL

\* C9: the rows removed are exactly those where a null-check column holds
\* "NULL"; the others, the header row among them, stay in their order.
C9_RowPruner ==
    pc = "done" /\ op = "text_to_rcsv" =>
        /\ out_matrix = SelectSeq(selected_matrix, NoNullCheckCell)
        /\ Len(out_matrix) >= 1 /\ out_matrix[1] = selected_matrix[1]

\* A header and two data rows, the first of which is removed
C9_Witness ==
    /\ pc = "done" /\ op = "text_to_rcsv"
    /\ Len(selected_matrix) = 3
    /\ out_matrix = <<selected_matrix[1], selected_matrix[3]>>
    /\ selected_matrix[2] # selected_matrix[3]

\* ------------------------------------------------------------------------
\* Properties of a whole call (checked under Spec)
\* ------------------------------------------------------------------------
AfterFill == pc \in {"filled", "selected", "done"}
Trials == Len(start_index)

\* A column of the built table that Policy B fills
FilledByPolicyB(col) ==
    op = "text_to_rcsv" /\ NameMatches(col) /\ ~TwoValue(col)

\* C3 as stated: after the fill and the cut, every column of the table has
\* the same number of cells, and N data rows (below its header) for a log
\* of N trial blocks.
C3_Original ==
    AfterFill =>
        \A k \in 1..Len(data_matrix) :
            /\ Len(data_matrix[k]) = Len(data_matrix[1])
            /\ Len(data_matrix[k]) - 1 = Trials

\* C3 as amended: of the N + 1 cells built per column the last two are cut.
\* Every column of text_to_csv, and every column of text_to_rcsv that Policy
\* B does not fill, is left with N - 1 cells: its header and N - 2 data rows
\* when N >= 2, nothing when N = 1.
C3_ColumnsCutByTwo ==
    AfterFill =>
        \A k \in 1..Len(data_matrix) :
            /\ Len(built_matrix[k]) = Trials + 1
            /\ ~FilledByPolicyB(built_matrix[k]) =>
                  /\ Len(data_matrix[k]) = Trials - 1
                  /\ Trials >= 2 => data_matrix[k][1] = built_matrix[k][1]

\* Three trials, two columns, one of them filled from its last slot
C3_Witness ==
    /\ AfterFill
    /\ Trials = 3
    /\ Len(data_matrix) = 2
    /\ \A k \in 1..2 : ~FilledByPolicyB(built_matrix[k]) /\ Len(data_matrix[k]) = 2
    /\ \E k \in 1..2 : TwoValue(built_matrix[k]) /\ cols[k] # built_matrix[k]

MinimalLog == Frame(<<FieldLine(<<"a">>, <<"A">>)>>)
Ended == pc \in {"done", "failed"}

\* C4 as stated: text_to_csv on one start marker, one field line
\* "name: value" and one end marker gives a header row holding the name and
\* one data row holding the value.
C4_Original ==
    (op = "text_to_csv" /\ text_data = MinimalLog /\ Ended) =>
        /\ pc = "done"
        /\ out_matrix = << << <<"a">> >>, << <<"A">> >> >>

\* C4 as amended: on that log text_to_csv gives an empty table, the header
\* and the value being the two cells cut from the column; the header row
\* and the data row are what it gives when two more (empty) frames follow.
C4_MinimalLog ==
    /\ (op = "text_to_csv" /\ text_data = MinimalLog /\ Ended) =>
          pc = "done" /\ out_matrix = <<>>
    /\ (op = "text_to_csv" /\ Ended
        /\ text_data = MinimalLog \o Frame(<<>>) \o Frame(<<>>)) =>
          pc = "done" /\ out_matrix = << << <<"a">> >>, << <<"A">> >> >>

C4_Witness ==
    /\ op = "text_to_csv" /\ text_data = MinimalLog /\ pc = "done"
    /\ built_matrix = << << <<"a">>, <<"A">> >> >>
    /\ out_matrix = <<>>

\* C8: when the segmentation does not fail there are as many blocks as
\* start markers and as end markers, the i-th start marker precedes the
\* i-th end marker, and block i is the lines strictly between the two,
\* none of them a marker line.
C8_Claim ==
    pc = "segmented" =>
        /\ Len(data_by_rows) = Len(start_index)
        /\ Len(data_by_rows) = Len(end_index)
        /\ \A i \in 1..Len(data_by_rows) :
              /\ start_index[i] < end_index[i]
              /\ Len(data_by_rows[i]) = end_index[i] - start_index[i] - 1
              /\ \A j \in 1..Len(data_by_rows[i]) :
                    /\ data_by_rows[i][j] = _strip(text_data[start_index[i] + 1 + j])
                    /\ data_by_rows[i][j] \notin {StartMarker, EndMarker}
====
